---- MODULE Spec2Model ----
(***************************************************************************)
(* Model of ipcalculator (src/main.rs): CIDR ranges (Ipv4Range, Ipv6Range) *)
(* with normalize / is_subset_of / is_superset_of / merge_with, the string *)
(* parsers, and IpRangeList with add_v4 / add_v6 / neighbor_merge /        *)
(* add_list / substract.                                                   *)
(*                                                                         *)
(* Addresses are unsigned integers of a fixed width.  The source uses u32  *)
(* and u128; the model scales both widths down (W4 < W6) and keeps every   *)
(* operation width-relative, so W4 stands where the source writes 32 and   *)
(* W6 where it writes 128.                                                 *)
(***************************************************************************)
EXTENDS Integers, Sequences, FiniteSets, Bags, TLC

\* ------------------------------------------------------------------ bounds
\* Address width standing for the 32 bits of Ipv4Range.ip.
W4 == 2
\* Address width standing for the 128 bits of Ipv6Range.ip (wider than W4).
W6 == W4 + 1
\* Number of add calls made on one list in the engine specification.
MaxAdds == 4
\* Number of add calls that built a list handed to add_list / substract_list.
MaxOther == 2
\* Number of parse-then-add calls in the parser-driven specification.
MaxParsedAdds == 3
\* Largest value of the u8 that holds cidr (slashes[1].parse() targets u8).
U8Max == 255

VARIABLES
    v4,       \* IpRangeList.v4 : sequence of [ip, cidr]
    v6,       \* IpRangeList.v6 : sequence of [ip, cidr]
    status,   \* "ok", or the panic that ended the program
    added4,   \* history: bag of the ranges passed to add_v4 so far
    added6,   \* history: bag of the ranges passed to add_v6 so far
    call      \* the pure-function call under evaluation (inputs and results)

vars == <<v4, v6, status, added4, added6, call>>

\* ------------------------------------------------------- unsigned integers
Pow2(n) == 2 ^ n

\* <uN>::max_value()
MaxValue(W) == Pow2(W) - 1

\* a << n on a W-bit unsigned integer (bits shifted out are lost)
ShiftLeft(W, a, n) == (a * Pow2(n)) % Pow2(W)

RECURSIVE BitAnd(_, _)
\* a & b
BitAnd(a, b) ==
    IF a = 0 \/ b = 0 THEN 0
    ELSE (a % 2) * (b % 2) + 2 * BitAnd(a \div 2, b \div 2)

\* ------------------------------------------------------------ Option / Result
None == [some |-> FALSE]
Some(r) == [some |-> TRUE, val |-> r]

Range(i, c) == [ip |-> i, cidr |-> c]

\* The value normalize() never returns: it stands for panic!("invalid CIDR size").
InvalidCidr == [ip |-> -1, cidr |-> -1]

\* ------------------------------------------------------------ IpRange trait
\* fn normalize(&mut self)
normalize(W, r) ==
    CASE r.cidr = 0 -> [r EXCEPT !.ip = 0]
      [] r.cidr \in 1..(W - 1) ->
            [r EXCEPT !.ip = BitAnd(r.ip, ShiftLeft(W, MaxValue(W), W - r.cidr))]
      [] r.cidr = W -> r
      [] OTHER -> InvalidCidr

\* fn _set_cidr(&mut self, c)
set_cidr(r, c) == [r EXCEPT !.cidr = c]

\* fn _reduce_cidr_by_one(&mut self)
reduce_cidr_by_one(W, r) ==
    IF r.cidr = 0 THEN r
    ELSE normalize(W, [r EXCEPT !.cidr = r.cidr - 1])

\* is_subset_of with > for >=: a range is no subset of a range of its own length.
is_subset_of_strict(W, self, other) ==
    /\ self.cidr > other.cidr
    /\ normalize(W, set_cidr(self, other.cidr)).ip = other.ip

\* fn is_subset_of(&self, other)
is_subset_of(W, self, other) ==
    /\ self.cidr >= other.cidr
    /\ normalize(W, set_cidr(self, other.cidr)).ip = other.ip

\* fn is_superset_of(&self, other)
is_superset_of(W, self, other) ==
    /\ self.cidr <= other.cidr
    /\ normalize(W, set_cidr(other, self.cidr)).ip = self.ip

\* merge_with with the sibling test left out: any two ranges of one length
\* that are not nested merge into the parent of the first.
merge_with_any_pair(W, self, other) ==
    IF is_subset_of(W, self, other) THEN Some(other)
    ELSE IF is_subset_of(W, other, self) THEN Some(self)
    ELSE IF self.cidr # other.cidr THEN None
    ELSE Some(reduce_cidr_by_one(W, self))

\* fn merge_with(&self, other) -> Option<Self>
merge_with(W, self, other) ==
    IF is_subset_of(W, self, other) THEN Some(other)
    ELSE IF is_subset_of(W, other, self) THEN Some(self)
    ELSE IF self.cidr # other.cidr THEN None
    ELSE IF reduce_cidr_by_one(W, self).ip = reduce_cidr_by_one(W, other).ip
         THEN Some(reduce_cidr_by_one(W, self))
    ELSE None

\* ------------------------------------------------------------------ Vec<T>
\* Indices are 0-based as in the source.
At(s, i) == s[i + 1]
InBounds(s, i) == i >= 0 /\ i < Len(s)
\* Vec::remove(i)
Remove(s, i) == SubSeq(s, 1, i) \o SubSeq(s, i + 2, Len(s))
\* Vec::insert(i, x)
Insert(s, i, x) == SubSeq(s, 1, i) \o <<x>> \o SubSeq(s, i + 1, Len(s))
\* v[i] = x
SetAt(s, i, x) == [s EXCEPT ![i + 1] = x]

\* Outcome of a method on one vector: the vector and the panic that ended it.
Returned(s) == [v |-> s, panic |-> "none"]
Panicked(s, why) == [v |-> s, panic |-> why]

\* impl Ord: the comparison looks at ip alone.
SortedByIp(s) == \A i \in 1..Len(s) : \A j \in 1..Len(s) : i < j => s[i].ip <= s[j].ip

\* self.v4.binary_search_by(|probe| probe.cmp(&i)): the set of results the
\* call may give.  On a sorted vector: Ok(idx) of a matching entry (any one
\* of them), else Err(insertion point).  On an unsorted vector the result is
\* unspecified: Ok only where the comparison is Equal, Err anywhere.
binary_search(s, key) ==
    LET matches == {i \in 0..(Len(s) - 1) : At(s, i).ip = key.ip}
        below == Cardinality({i \in 0..(Len(s) - 1) : At(s, i).ip < key.ip})
    IN IF SortedByIp(s)
       THEN IF matches # {}
            THEN {[found |-> TRUE, idx |-> i] : i \in matches}
            ELSE {[found |-> FALSE, idx |-> below]}
       ELSE {[found |-> TRUE, idx |-> i] : i \in matches}
            \cup {[found |-> FALSE, idx |-> i] : i \in 0..Len(s)}

\* neighbor_merge without the retries: one merge on each side, no cascade.
neighbor_merge_once(W, s, idx) ==
    LET t == IF idx > 0 /\ InBounds(s, idx) /\ merge_with(W, At(s, idx - 1), At(s, idx)).some
             THEN SetAt(Remove(s, idx - 1), idx - 1,
                        merge_with(W, At(s, idx - 1), At(s, idx)).val)
             ELSE s
    IN IF idx + 1 < Len(t) /\ merge_with(W, At(t, idx), At(t, idx + 1)).some
       THEN Returned(SetAt(Remove(t, idx), idx, merge_with(W, At(t, idx), At(t, idx + 1)).val))
       ELSE Returned(t)

RECURSIVE neighbor_merge_left_only(_, _, _)
\* neighbor_merge that never looks at the right neighbor.
neighbor_merge_left_only(W, s, idx) ==
    IF idx > 0 /\ InBounds(s, idx) /\ merge_with(W, At(s, idx - 1), At(s, idx)).some
    THEN neighbor_merge_left_only(W, SetAt(Remove(s, idx - 1), idx - 1,
                                           merge_with(W, At(s, idx - 1), At(s, idx)).val),
                                  idx - 1)
    ELSE Returned(s)

RECURSIVE neighbor_merge(_, _, _)
\* fn neighbor_merge_v4(&mut self, idx) / neighbor_merge_v6
neighbor_merge(W, s, idx) ==
    LET left ==
            IF idx > 0
            THEN IF ~InBounds(s, idx)
                 THEN Panicked(s, "index")
                 ELSE LET r == merge_with(W, At(s, idx - 1), At(s, idx))
                      IN IF r.some
                         THEN neighbor_merge(W, SetAt(Remove(s, idx - 1), idx - 1, r.val),
                                             idx - 1)
                         ELSE Returned(s)
            ELSE Returned(s)
    IN IF left.panic # "none" THEN left
       ELSE LET t == left.v
            IN IF idx + 1 < Len(t)
               THEN LET r == merge_with(W, At(t, idx), At(t, idx + 1))
                    IN IF r.some
                       THEN neighbor_merge(W, SetAt(Remove(t, idx), idx, r.val), idx)
                       ELSE Returned(t)
               ELSE Returned(t)

\* add that ignores the insertion point and inserts at the front.
add_at_front(W, s, i, b) ==
    IF b.found
    THEN LET m == merge_with(W, i, At(s, b.idx))
         IN IF m.some
            THEN neighbor_merge(W, SetAt(s, b.idx, m.val), b.idx)
            ELSE Panicked(s, "unreachable")
    ELSE neighbor_merge(W, Insert(s, 0, i), 0)

\* fn add_v4(&mut self, i) / add_v6, after the search gave b
add_at(W, s, i, b) ==
    IF b.found
    THEN LET m == merge_with(W, i, At(s, b.idx))
         IN IF m.some
            THEN neighbor_merge(W, SetAt(s, b.idx, m.val), b.idx)
            ELSE Panicked(s, "unreachable")
    ELSE neighbor_merge(W, Insert(s, b.idx, i), b.idx)

\* fn add_v4(&mut self, i) / add_v6: the outcomes the call may have
add(W, s, i) == {add_at(W, s, i, b) : b \in binary_search(s, i)}

RECURSIVE add_each(_, _, _)
\* for i in other.v4 { self.add_v4(i); }: outcomes of the loop, started from
\* the outcomes in `from`; a panic ends the loop.
add_each(W, from, other) ==
    IF other = <<>> THEN from
    ELSE add_each(W,
                  UNION {IF o.panic # "none" THEN {o} ELSE add(W, o.v, Head(other))
                         : o \in from},
                  Tail(other))

\* fn substract_v4(&mut self, i) / substract_v6:
\* for it in &mut self.v4 { unimplemented!() }
substract(s, i) ==
    IF Len(s) > 0 THEN Panicked(s, "unimplemented") ELSE Returned(s)

RECURSIVE substract_each(_, _)
\* for i in other.v4 { self.substract_v4(i); }
substract_each(from, other) ==
    IF other = <<>> \/ from.panic # "none" THEN from
    ELSE substract_each(substract(from.v, Head(other)), Tail(other))

\* fn add_list(&mut self, other): the v4 loop, then the v6 loop
add_list(l4, l6, other) ==
    UNION {IF o4.panic # "none"
           THEN {[v4 |-> o4.v, v6 |-> l6, panic |-> o4.panic]}
           ELSE {[v4 |-> o4.v, v6 |-> o6.v, panic |-> o6.panic] :
                    o6 \in add_each(W6, {Returned(l6)}, other.v6)}
           : o4 \in add_each(W4, {Returned(l4)}, other.v4)}

\* fn substract_list(&mut self, other): the v4 loop, then the v6 loop
substract_list(l4, l6, other) ==
    LET o4 == substract_each(Returned(l4), other.v4)
        o6 == IF o4.panic # "none" THEN Returned(l6)
              ELSE substract_each(Returned(l6), other.v6)
    IN [v4 |-> o4.v, v6 |-> o6.v,
        panic |-> IF o4.panic # "none" THEN o4.panic ELSE o6.panic]

\* --------------------------------------------------------------- FromStr
\* A string given to from_str, after s.trim().split("/"):
\*   parts  slashes.len()
\*   addr   slashes[0].parse::<IpvNAddr>(): Ok(value) or Err
\*   tok    slashes[1], a text that is a number or is not
Addrs(W) ==
    {[valid |-> TRUE, value |-> a] : a \in 0..MaxValue(W)}
        \cup {[valid |-> FALSE, value |-> 0]}
Toks(W) ==
    {[numeric |-> TRUE, value |-> n] : n \in (-1..(W + 1)) \cup {U8Max + 1}}
        \cup {[numeric |-> FALSE, value |-> 0]}
NoTok == [numeric |-> FALSE, value |-> 0]
Strings(W) ==
    {[parts |-> 1, addr |-> a, tok |-> NoTok] : a \in Addrs(W)}
        \cup {[parts |-> n, addr |-> a, tok |-> t] :
                n \in 2..3, a \in Addrs(W), t \in Toks(W)}

Ok(r) == [ok |-> TRUE, val |-> r, err |-> "none"]
Err(e) == [ok |-> FALSE, val |-> InvalidCidr, err |-> e]

\* slashes[1].parse() into the u8 of cidr
parse_u8(t) ==
    IF t.numeric /\ t.value >= 0 /\ t.value <= U8Max
    THEN [ok |-> TRUE, n |-> t.value]
    ELSE [ok |-> FALSE, n |-> 0]

\* impl FromStr for Ipv4Range
from_str_v4(s) ==
    CASE s.parts \in 1..2 /\ ~s.addr.valid -> Err("IpInvalid")
      [] s.parts = 1 /\ s.addr.valid -> Ok(Range(s.addr.value, W4))
      [] s.parts = 2 /\ s.addr.valid ->
            LET n == parse_u8(s.tok)
            IN IF n.ok
               THEN IF n.n \in 0..W4
                    THEN Ok(normalize(W4, Range(s.addr.value, n.n)))
                    ELSE Err("CidrInvalid")
               ELSE Err("CidrInvalid")
      [] OTHER -> Err("MoreThanOneSlash")

\* The cidr from_str gives an Ipv6Range written without '/': the source
\* writes the literal 32 here, the width of the other family.
BareV6Cidr == W4

\* impl FromStr for Ipv6Range
from_str_v6(s) ==
    CASE s.parts = 1 /\ ~s.addr.valid -> Err("IpInvalid")
      [] s.parts = 2 /\ ~s.addr.valid -> Err("IpInvalid")
      [] s.parts = 1 /\ s.addr.valid -> Ok(Range(s.addr.value, BareV6Cidr))
      [] s.parts = 2 /\ s.addr.valid ->
            LET n == parse_u8(s.tok)
            IN IF n.ok
               THEN IF n.n \in 0..W6
                    THEN Ok(normalize(W6, Range(s.addr.value, n.n)))
                    ELSE Err("CidrInvalid")
               ELSE Err("CidrInvalid")
      [] OTHER -> Err("MoreThanOneSlash")

\* ------------------------------------------------------------ input spaces
\* The normalized ranges of width W: every cidr in 0..W, every aligned base.
Norm(W) == UNION {{Range(b * Pow2(W - c), c) : b \in 0..(Pow2(c) - 1)} : c \in 0..W}
Norm4 == Norm(W4)
Norm6 == Norm(W6)

\* The ranges the parsers return (the Ok results over every string).
Parsed4 == {r.val : r \in {x \in {from_str_v4(s) : s \in Strings(W4)} : x.ok}}
Parsed6 == {r.val : r \in {x \in {from_str_v6(s) : s \in Strings(W6)} : x.ok}}

RECURSIVE BuiltBy(_, _)
\* The vectors that at most n add calls with normalized ranges build.
BuiltBy(W, n) ==
    IF n = 0 THEN {<<>>}
    ELSE LET prev == BuiltBy(W, n - 1)
         IN prev \cup UNION {{o.v : o \in {x \in add(W, l, p) : x.panic = "none"}} :
                                l \in prev, p \in Norm(W)}

\* The lists handed to add_list / substract_list.
OtherLists == {[v4 |-> l, v6 |-> <<>>] : l \in BuiltBy(W4, MaxOther)}

\* ------------------------------------------------------------------ state
StatusOf(panic) == IF panic = "none" THEN "ok" ELSE panic

NoCall == [fn |-> "none"]

\* IpRangeList::new()
EngineInit ==
    /\ v4 = <<>>
    /\ v6 = <<>>
    /\ status = "ok"
    /\ added4 = EmptyBag
    /\ added6 = EmptyBag

Init == EngineInit /\ call = NoCall

BagOfSeq(s) == [x \in {s[i] : i \in 1..Len(s)} |-> Cardinality({i \in 1..Len(s) : s[i] = x})]

\* self.add_v4(p)
DoAddV4(p) ==
    /\ \E o \in add(W4, v4, p) : v4' = o.v /\ status' = StatusOf(o.panic)
    /\ added4' = added4 (+) SetToBag({p})
    /\ UNCHANGED <<v6, added6, call>>

\* self.add_v6(p)
DoAddV6(p) ==
    /\ \E o \in add(W6, v6, p) : v6' = o.v /\ status' = StatusOf(o.panic)
    /\ added6' = added6 (+) SetToBag({p})
    /\ UNCHANGED <<v4, added4, call>>

\* self.add_list(other)
DoAddList(other) ==
    /\ \E o \in add_list(v4, v6, other) :
            v4' = o.v4 /\ v6' = o.v6 /\ status' = StatusOf(o.panic)
    /\ added4' = added4 (+) BagOfSeq(other.v4)
    /\ added6' = added6 (+) BagOfSeq(other.v6)
    /\ UNCHANGED call

\* self.substract_v4(p)
DoSubstractV4(p) ==
    /\ LET o == substract(v4, p) IN v4' = o.v /\ status' = StatusOf(o.panic)
    /\ UNCHANGED <<v6, added4, added6, call>>

\* ------------------------------------------ the list engine, IPv4 ranges
\* A panic ends the program: every step needs status = "ok".
AddV4 ==
    /\ status = "ok"
    /\ BagCardinality(added4) < MaxAdds
    /\ \E p \in Norm4 : DoAddV4(p)

AddList ==
    /\ status = "ok"
    /\ \E other \in OtherLists :
            /\ BagCardinality(added4) + Len(other.v4) <= MaxAdds
            /\ DoAddList(other)

SubstractV4 ==
    /\ status = "ok"
    /\ \E p \in Norm4 : DoSubstractV4(p)

\* self.substract_list(other), other any of OtherLists
SubstractList ==
    /\ status = "ok"
    /\ \E o \in {substract_list(v4, v6, other) : other \in OtherLists} :
            v4' = o.v4 /\ v6' = o.v6 /\ status' = StatusOf(o.panic)
    /\ UNCHANGED <<added4, added6, call>>

\* fn empty(&mut self)
Empty ==
    /\ status = "ok"
    /\ v4' = <<>>
    /\ v6' = <<>>
    /\ added4' = EmptyBag
    /\ added6' = EmptyBag
    /\ UNCHANGED <<status, call>>

Next == AddV4 \/ AddList \/ SubstractV4 \/ SubstractList \/ Empty

Spec == Init /\ [][Next]_vars

\* ------------------------------- the list engine on what the parsers return
ParsedAddV4 ==
    /\ status = "ok"
    /\ BagCardinality(added4) + BagCardinality(added6) < MaxParsedAdds
    /\ \E p \in Parsed4 : DoAddV4(p)

ParsedAddV6 ==
    /\ status = "ok"
    /\ BagCardinality(added4) + BagCardinality(added6) < MaxParsedAdds
    /\ \E p \in Parsed6 : DoAddV6(p)

NextParsed == ParsedAddV4 \/ ParsedAddV6

SpecParsed == Init /\ [][NextParsed]_vars

\* ------------------------------------------- single calls of the pure methods
\* call holds one call: its arguments, and once it returned, its results.
MergeCalls ==
    UNION {{[fn |-> "merge_with", W |-> w, x |-> x, y |-> y, state |-> "called"] :
                x \in Norm(w), y \in Norm(w)} : w \in {W4, W6}}
SubsetCalls ==
    UNION {{[fn |-> "is_subset_of", W |-> w, x |-> x, y |-> y, state |-> "called"] :
                x \in Norm(w), y \in Norm(w)} : w \in {W4, W6}}

InitOps == EngineInit /\ call \in MergeCalls \cup SubsetCalls

\* x.merge_with(&y), y.merge_with(&x) and x.merge_with(&x), as tests::merge_with
CallMergeWith ==
    /\ call.fn = "merge_with"
    /\ call.state = "called"
    /\ call' = [fn |-> call.fn, W |-> call.W, x |-> call.x, y |-> call.y,
                state |-> "returned",
                xy |-> merge_with(call.W, call.x, call.y),
                yx |-> merge_with(call.W, call.y, call.x),
                xx |-> merge_with(call.W, call.x, call.x)]
    /\ UNCHANGED <<v4, v6, status, added4, added6>>

\* is_subset_of / is_superset_of both ways round, as tests::sub_and_superset1a
CallSubsetSuperset ==
    /\ call.fn = "is_subset_of"
    /\ call.state = "called"
    /\ call' = [fn |-> call.fn, W |-> call.W, x |-> call.x, y |-> call.y,
                state |-> "returned",
                sub_xy |-> is_subset_of(call.W, call.x, call.y),
                sup_xy |-> is_superset_of(call.W, call.x, call.y),
                sub_yx |-> is_subset_of(call.W, call.y, call.x),
                sup_yx |-> is_superset_of(call.W, call.y, call.x),
                sub_xx |-> is_subset_of(call.W, call.x, call.x),
                sup_xx |-> is_superset_of(call.W, call.x, call.x)]
    /\ UNCHANGED <<v4, v6, status, added4, added6>>

NextOps == CallMergeWith \/ CallSubsetSuperset

SpecOps == InitOps /\ [][NextOps]_vars

ParseCalls ==
    {[fn |-> "from_str_v4", s |-> s, state |-> "called"] : s \in Strings(W4)}
        \cup {[fn |-> "from_str_v6", s |-> s, state |-> "called"] : s \in Strings(W6)}

InitParse == EngineInit /\ call \in ParseCalls

\* s.parse::<Ipv4Range>()
CallFromStrV4 ==
    /\ call.fn = "from_str_v4"
    /\ call.state = "called"
    /\ call' = [fn |-> call.fn, s |-> call.s, state |-> "returned",
                ret |-> from_str_v4(call.s)]
    /\ UNCHANGED <<v4, v6, status, added4, added6>>

\* s.parse::<Ipv6Range>()
CallFromStrV6 ==
    /\ call.fn = "from_str_v6"
    /\ call.state = "called"
    /\ call' = [fn |-> call.fn, s |-> call.s, state |-> "returned",
                ret |-> from_str_v6(call.s)]
    /\ UNCHANGED <<v4, v6, status, added4, added6>>

NextParse == CallFromStrV4 \/ CallFromStrV6

SpecParse == InitParse /\ [][NextParse]_vars

\* ============================================================ properties
\* The addresses of a normalized range: 2^(W - cidr) of them from ip on.
AddrRange(W, p) == {a \in 0..MaxValue(W) : a >= p.ip /\ a < p.ip + Pow2(W - p.cidr)}
\* The addresses the entries of a vector cover.
Cover(W, s) == UNION {AddrRange(W, s[i]) : i \in 1..Len(s)}
\* The addresses of the ranges added so far.
CoverOfBag(W, b) == UNION {AddrRange(W, p) : p \in BagToSet(b)}

\* A fixed order of the ranges: by ip, then by cidr.
Key(p) == p.ip * (W6 + 2) + p.cidr
RECURSIVE SeqOfBag(_)
\* The elements of a bag, each as often as it occurs, in the fixed order.
SeqOfBag(b) ==
    IF BagToSet(b) = {} THEN <<>>
    ELSE LET m == CHOOSE x \in BagToSet(b) : \A y \in BagToSet(b) : Key(x) <= Key(y)
         IN <<m>> \o SeqOfBag(b (-) SetToBag({m}))

\* The blocks of length L that tile the block parent.
Blocks(W, parent, L) ==
    {p \in Norm(W) : p.cidr = L /\ AddrRange(W, p) \subseteq AddrRange(W, parent)}

\* Every block of the IPv4 space with each of its tilings by blocks of one length.
Tilings4 ==
    UNION {{[parent |-> q, blocks |-> Blocks(W4, q, L)] : L \in q.cidr..W4} : q \in Norm4}

\* C1 (compaction): after every add, no two distinct stored entries, adjacent
\* or not, merge (merge_with gives None for them), and no stored entry is a
\* subset of another one.
C1_Compaction ==
    \A i \in 1..Len(v4) : \A j \in 1..Len(v4) :
        i # j => /\ ~merge_with(W4, v4[i], v4[j]).some
                 /\ ~is_subset_of(W4, v4[i], v4[j])

\* Three distinct hosts were added, two of them merged: two entries are left.
C1_Witness ==
    /\ status = "ok"
    /\ BagCardinality(added4) = 3
    /\ \A p \in BagToSet(added4) : p.cidr = W4
    /\ Cardinality(BagToSet(added4)) = 3
    /\ Len(v4) = 2

\* C2 (coverage): the addresses the stored entries cover are exactly the
\* addresses of the ranges added so far: none dropped, none invented.
C2_Coverage == Cover(W4, v4) = CoverOfBag(W4, added4)

\* A half and the two quarters of the other half were added (the last add
\* cascades through two merges): one entry, the whole space.
C2_Witness ==
    /\ status = "ok"
    /\ BagCardinality(added4) = 3
    /\ \E p \in BagToSet(added4) : p.cidr = 1
    /\ Cardinality({p \in BagToSet(added4) : p.cidr = 2}) = 2
    /\ v4 = <<Range(0, 0)>>

\* C3 (order independence): the list is the one that adding the same
\* multiset of ranges in the fixed order gives, whatever the order in which
\* add and add_list received them; and when the ranges added are exactly the
\* blocks of one length that tile a parent block, the list is that parent
\* alone.
C3_OrderIndependent ==
    /\ add_each(W4, {Returned(<<>>)}, SeqOfBag(added4)) = {Returned(v4)}
    /\ \A t \in Tilings4 : BagToSet(added4) = t.blocks => v4 = <<t.parent>>

\* The four blocks of length 2 were added, in some order: the root alone is left.
C3_Witness ==
    /\ status = "ok"
    /\ BagToSet(added4) = Blocks(W4, Range(0, 0), 2)
    /\ v4 = <<Range(0, 0)>>

\* C4 (sortedness): the stored sequence is strictly increasing by ip.
C4_Sorted == \A i \in 1..Len(v4) : \A j \in 1..Len(v4) : i < j => v4[i].ip < v4[j].ip

\* Two entries, one of them a parent that a merge produced (it was never
\* added itself).
C4_Witness ==
    /\ status = "ok"
    /\ Len(v4) = 2
    /\ \E i \in 1..2 : ~BagIn(v4[i], added4)

\* C9 (subtraction): substract_v4(p) completes and leaves the list covering
\* what it covered before minus the addresses of p.
C9_Substract ==
    [][\A p \in Norm4 :
         (status = "ok" /\ DoSubstractV4(p)) =>
            /\ status' = "ok"
            /\ Cover(W4, v4') = Cover(W4, v4) \ AddrRange(W4, p)]_vars

\* The leading n bits of a W-bit address, the rest cleared.
Truncate(W, ip, n) == ip - (ip % Pow2(W - n))

\* C5 (merge_with): merge_with gives Some(r) exactly when the addresses of x
\* and y together are the addresses of one block, and r is that block (ip and
\* cidr): the superset when one holds the other, the parent of length
\* cidr - 1 when they are its two halves.  Both argument orders give the same
\* result, and merge_with(x, x) = x.
C5_MergeWith ==
    (call.fn = "merge_with" /\ call.state = "returned") =>
        LET W == call.W
            x == call.x
            y == call.y
            both == AddrRange(W, x) \cup AddrRange(W, y)
            blocks == {b \in Norm(W) : AddrRange(W, b) = both}
        IN /\ call.xy.some <=> blocks # {}
           /\ call.xy.some => call.xy.val \in blocks
           /\ AddrRange(W, x) \subseteq AddrRange(W, y) => call.xy = Some(y)
           /\ AddrRange(W, y) \subseteq AddrRange(W, x) => call.xy = Some(x)
           /\ (/\ call.xy.some
               /\ ~(AddrRange(W, x) \subseteq AddrRange(W, y))
               /\ ~(AddrRange(W, y) \subseteq AddrRange(W, x)))
                => /\ x.cidr = y.cidr
                   /\ call.xy.val = Range(Truncate(W, x.ip, x.cidr - 1), x.cidr - 1)
           /\ call.yx = call.xy
           /\ call.xx = Some(x)

\* Two halves of a block merged into their parent.
C5_Witness ==
    /\ call.fn = "merge_with"
    /\ call.state = "returned"
    /\ call.x.ip # call.y.ip
    /\ call.x.cidr = call.y.cidr
    /\ call.xy.some
    /\ call.xy.val.cidr = call.x.cidr - 1

\* C6 (subset / superset): x.is_subset_of(y) exactly when x.cidr >= y.cidr
\* and x.ip cut to y.cidr bits is y.ip; x.is_superset_of(y) is
\* y.is_subset_of(x); both hold of (x, x); and for a strict subset x of y,
\* y is a superset of x and x is no superset of y, nor y a subset of x.
C6_SubsetSuperset ==
    (call.fn = "is_subset_of" /\ call.state = "returned") =>
        LET W == call.W
            x == call.x
            y == call.y
        IN /\ call.sub_xy <=> (x.cidr >= y.cidr /\ Truncate(W, x.ip, y.cidr) = y.ip)
           /\ call.sub_yx <=> (y.cidr >= x.cidr /\ Truncate(W, y.ip, x.cidr) = x.ip)
           /\ call.sub_xy <=> AddrRange(W, x) \subseteq AddrRange(W, y)
           /\ call.sup_xy = call.sub_yx
           /\ call.sup_yx = call.sub_xy
           /\ call.sub_xx /\ call.sup_xx
           /\ (call.sub_xy /\ x.cidr > y.cidr) =>
                (call.sup_yx /\ ~call.sup_xy /\ ~call.sub_yx)

\* A strict subset: a longer range inside a shorter one with another base.
C6_Witness ==
    /\ call.fn = "is_subset_of"
    /\ call.state = "returned"
    /\ call.x.cidr > call.y.cidr
    /\ call.x.ip # call.y.ip
    /\ call.sub_xy
    /\ call.sup_yx

\* C7 (no '/'): a string without '/' whose address parses gives the range of
\* that address with the full length of its family, W4 or W6.
C7_BareAddress ==
    (call.fn \in {"from_str_v4", "from_str_v6"} /\ call.state = "returned"
        /\ call.s.parts = 1 /\ call.s.addr.valid) =>
            /\ call.ret.ok
            /\ call.ret.val = Range(call.s.addr.value,
                                    IF call.fn = "from_str_v4" THEN W4 ELSE W6)

\* base & ~mask(cidr) = 0 with cidr in 0..W, and normalize changes nothing.
IsNormalized(W, p) ==
    /\ p.cidr \in 0..W
    /\ p.ip % Pow2(W - p.cidr) = 0
    /\ normalize(W, p) = p

\* C8 (normalization): every range the parsers returned (the ranges handed
\* to add) and every entry of the lists built from them, merge results
\* included, is normalized, and normalizing it again changes nothing.
C8_Normalized ==
    /\ \A p \in BagToSet(added4) : IsNormalized(W4, p)
    /\ \A p \in BagToSet(added6) : IsNormalized(W6, p)
    /\ \A i \in 1..Len(v4) : IsNormalized(W4, v4[i])
    /\ \A i \in 1..Len(v6) : IsNormalized(W6, v6[i])

\* C10 (add never aborts on parsed input): no add of a range the parsers
\* returned reaches unreachable!() or indexes outside the vector.
C10_AddNeverAborts == status \notin {"unreachable", "index"}

====
